---- MODULE Spec2Model ----
(***************************************************************************)
(* SmartRoute graph routing engine (src/backend/utils/graphRouting.js):    *)
(* the RoadGraph class -- addNode, addEdge, updateEdgeLoad,                *)
(* findShortestPath, findAlternativePaths, distributeTraffic -- and the    *)
(* pathExists helper.                                                      *)
(*                                                                         *)
(* Representation.  A JS Map/Set iterates in insertion order, and the      *)
(* order decides Dijkstra's tie-breaking, so every Map and Set is a        *)
(* sequence without repetition:                                            *)
(*   nodes        the keys of this.nodes, in insertion order               *)
(*   connections  node id -> its `connections` Set, in insertion order     *)
(*   edges        the values of this.edges in insertion order; the field   *)
(*                `key` of an entry is its Map key                         *)
(* The string "a-b" (an edge id, a Map key) is the pair <<a, b>>: the node *)
(* ids of the model hold no '-', so the pair and the string determine each *)
(* other.  Numbers are exact: the travel times and loads of the model are  *)
(* chosen so that every product and quotient the code forms on them is an  *)
(* integer or is floored by the code itself.                               *)
(***************************************************************************)
EXTENDS Integers, Sequences, FiniteSets, TLC

\* ------------------------------------------------------------------ bounds
\* the largest number of paths a caller asks for
MaxK == 2

\* ---------------------------------------------------------- JS non-values
\* `undefined` (an absent attribute, a Map.get miss)
Undefined == -1
\* `Infinity` (initial distance of every node but the start)
Infinity == -2
\* an absent node id (data.from, data.to, previous.get of a node never
\* relaxed) and an absent edge id (data.id)
NoNode == ""
NoId == <<>>

\* ------------------------------------------------------------ input sets
NodeIds == {"A", "B", "C"}

\* the order in which construction adds the nodes that are not there yet
\* (createKachiDhamNetwork adds them in the order of its input array);
\* a node that is there may be added again at any time
NodeOrder == <<"A", "B", "C">>

\* the addEdge calls issued: the three roads of the spec's scenario
\* (A->B 5, B->C 5, A->C 20, default capacity 100), the third also with an
\* initial currentLoad, the second also as a bidirectional request
EdgeCalls ==
  { [from |-> "A", to |-> "B", travelTime |-> 5,
     currentLoad |-> Undefined, bidirectional |-> FALSE],
    [from |-> "B", to |-> "C", travelTime |-> 5,
     currentLoad |-> Undefined, bidirectional |-> FALSE],
    [from |-> "B", to |-> "C", travelTime |-> 5,
     currentLoad |-> Undefined, bidirectional |-> TRUE],
    [from |-> "A", to |-> "C", travelTime |-> 20,
     currentLoad |-> Undefined, bidirectional |-> FALSE],
    [from |-> "A", to |-> "C", travelTime |-> 20,
     currentLoad |-> 100, bidirectional |-> FALSE] }

\* the updateEdgeLoad calls issued (B->A is never an edge)
LoadCalls ==
  { [from |-> "A", to |-> "C", load |-> 0],
    [from |-> "A", to |-> "B", load |-> 100],
    [from |-> "C", to |-> "B", load |-> 100],
    [from |-> "B", to |-> "A", load |-> 100] }

\* vehicle totals and cost functions of the queries
Vehicles == {7, 100}
WeightFns == {"default", "distance"}

VARIABLES nodes, connections, edges, result

vars == <<nodes, connections, edges, result>>

\* ------------------------------------------------------- sequence helpers
Range(s) == {s[i] : i \in DOMAIN s}

RECURSIVE SumSeq(_)
SumSeq(s) == IF s = <<>> THEN 0 ELSE Head(s) + SumSeq(Tail(s))

\* Set.add: append unless present
SetAdd(s, x) == IF x \in Range(s) THEN s ELSE Append(s, x)

\* position of a key in the edge Map, 0 when absent
EdgeIndex(es, key) ==
  IF \E i \in DOMAIN es : es[i].key = key
  THEN CHOOSE i \in DOMAIN es : es[i].key = key
  ELSE 0

MapHas(es, key) == EdgeIndex(es, key) # 0

\* Map.set: an existing key keeps its place, a new key goes last
MapSet(es, rec) ==
  IF MapHas(es, rec.key)
  THEN [es EXCEPT ![EdgeIndex(es, rec.key)] = rec]
  ELSE Append(es, rec)

\* Map.delete
MapDelete(es, key) ==
  IF MapHas(es, key)
  THEN LET i == EdgeIndex(es, key)
       IN  SubSeq(es, 1, i - 1) \o SubSeq(es, i + 1, Len(es))
  ELSE es

\* an attribute of the data object, or the default when it is absent
\* (`data.x || dflt` followed by `...data`; the values of the model are
\* never 0, so `||` and the spread agree)
Attr(v, dflt) == IF v = Undefined THEN dflt ELSE v

\* the graph as one value
Graph(ns, cs, es) == [nodes |-> ns, connections |-> cs, edges |-> es]

\* ------------------------------------------------------------- addNode
\* a data object without a `connections` attribute
NodeData == [hasConnections |-> FALSE, connections |-> <<>>]

\* a node record spread into a data object: it has `connections`
NodeAsData(conns) == [hasConnections |-> TRUE, connections |-> conns]

\* nodes.set(id, {id, connections: new Set(), ...data}): the node gets a
\* fresh empty Set (also when the id already exists) unless data brings
\* its own `connections`
AddNodeOp(g, id, data) ==
  [g EXCEPT
     !.nodes = SetAdd(g.nodes, id),
     !.connections =
        [n \in Range(g.nodes) \cup {id} |->
           IF n = id
           THEN (IF data.hasConnections THEN data.connections ELSE <<>>)
           ELSE g.connections[n]]]

\* ------------------------------------------------------------- addEdge
\* the record addEdge stores under edgeId: defaults, then ...data.  `data`
\* carries id/from/to only when the caller spreads an existing edge record
\* into it (findAlternativePaths does).
EdgeRecord(fromId, toId, data) ==
  [key |-> <<fromId, toId>>,
   id |-> IF data.id = NoId THEN <<fromId, toId>> ELSE data.id,
   from |-> IF data.from = NoNode THEN fromId ELSE data.from,
   to |-> IF data.to = NoNode THEN toId ELSE data.to,
   distance |-> Attr(data.distance, 1),
   travelTime |-> Attr(data.travelTime, Attr(data.distance, 1)),
   capacity |-> Attr(data.capacity, 100),
   currentLoad |-> Attr(data.currentLoad, 0),
   currentTravelTime |-> data.currentTravelTime]

\* a caller's data object: the attributes it does not give are absent
FullData(d) ==
  [id |-> NoId, from |-> NoNode, to |-> NoNode,
   distance |-> Undefined, travelTime |-> d.travelTime,
   capacity |-> Undefined, currentLoad |-> d.currentLoad,
   currentTravelTime |-> Undefined, bidirectional |-> d.bidirectional]

\* addEdge(fromId, toId) called with no data, or with data undefined
EmptyData ==
  [id |-> NoId, from |-> NoNode, to |-> NoNode,
   distance |-> Undefined, travelTime |-> Undefined,
   capacity |-> Undefined, currentLoad |-> Undefined,
   currentTravelTime |-> Undefined, bidirectional |-> FALSE]

AddEdgeThrows(g, fromId, toId) ==
  fromId \notin Range(g.nodes) \/ toId \notin Range(g.nodes)

\* addEdge with the record stored ahead of the check of lines 38-40
AddEdgeOpStoreFirst(g, fromId, toId, data) ==
  IF AddEdgeThrows(g, fromId, toId)
  THEN [g EXCEPT !.edges = MapSet(g.edges, EdgeRecord(fromId, toId, data))]
  ELSE
    LET es1 == MapSet(g.edges, EdgeRecord(fromId, toId, data))
        cs1 == [g.connections EXCEPT ![fromId] = SetAdd(@, toId)]
    IN  IF data.bidirectional
        THEN [g EXCEPT
                !.edges = MapSet(es1, EdgeRecord(toId, fromId, data)),
                !.connections = [cs1 EXCEPT ![toId] = SetAdd(@, fromId)]]
        ELSE [g EXCEPT !.edges = es1, !.connections = cs1]

AddEdgeOp(g, fromId, toId, data) ==
  IF AddEdgeThrows(g, fromId, toId) THEN g
  ELSE
    LET es1 == MapSet(g.edges, EdgeRecord(fromId, toId, data))
        cs1 == [g.connections EXCEPT ![fromId] = SetAdd(@, toId)]
    IN  IF data.bidirectional
        THEN [g EXCEPT
                !.edges = MapSet(es1, EdgeRecord(toId, fromId, data)),
                !.connections = [cs1 EXCEPT ![toId] = SetAdd(@, fromId)]]
        ELSE [g EXCEPT !.edges = es1, !.connections = cs1]

\* -------------------------------------------------------- updateEdgeLoad
UpdateEdgeLoadThrows(g, fromId, toId) == ~MapHas(g.edges, <<fromId, toId>>)

\* edge.currentLoad = load;
\* edge.currentTravelTime = edge.travelTime * (1 + load / edge.capacity)
LoadedTravelTime(travelTime, load, capacity) ==
  (travelTime * (capacity + load)) \div capacity

UpdateEdgeLoadOp(g, fromId, toId, load) ==
  IF UpdateEdgeLoadThrows(g, fromId, toId) THEN g
  ELSE
    LET i == EdgeIndex(g.edges, <<fromId, toId>>)
        e == g.edges[i]
    IN  [g EXCEPT !.edges[i] =
           [e EXCEPT !.currentLoad = load,
                     !.currentTravelTime =
                        LoadedTravelTime(e.travelTime, load, e.capacity)]]

\* ------------------------------------------------------ findShortestPath

\* a < b on JS numbers that may be Infinity
Less(a, b) == a # Infinity /\ (b = Infinity \/ a < b)

\* Map.get on the edge Map: the record, or a miss
MapGet(es, key) == es[EdgeIndex(es, key)]

\* the default weight function: edge.currentTravelTime || edge.travelTime
\* (`||` skips both undefined and 0)
DefaultWeight(edge) ==
  IF edge.currentTravelTime # Undefined /\ edge.currentTravelTime # 0
  THEN edge.currentTravelTime
  ELSE edge.travelTime

\* getWeight: the default, or the injected function (here: edge.distance)
GetWeight(weightFn, edge) ==
  IF weightFn = "distance" THEN edge.distance ELSE DefaultWeight(edge)

\* the scan `for (const nodeId of unvisited)`: unvisited keeps the order of
\* this.nodes; the first node of strictly smallest distance wins, and a
\* node at Infinity never does
RECURSIVE ScanMin(_, _, _, _, _)
ScanMin(order, unvisited, dist, current, minDistance) ==
  IF order = <<>> THEN current
  ELSE
    LET n == Head(order)
    IN  IF n \in unvisited /\ Less(dist[n], minDistance)
        THEN ScanMin(Tail(order), unvisited, dist, n, dist[n])
        ELSE ScanMin(Tail(order), unvisited, dist, current, minDistance)

\* the loop over currentNode.connections; st = [dist, prev, unvisited,
\* threw].  getWeight(edge) dereferences the edge, so a neighbor whose edge
\* is not in this.edges raises a TypeError.
RECURSIVE RelaxNeighbors(_, _, _, _, _)
RelaxNeighbors(g, weightFn, current, conns, st) ==
  IF conns = <<>> \/ st.threw # "none" THEN st
  ELSE
    LET neighborId == Head(conns)
        key == <<current, neighborId>>
    IN  IF neighborId \notin st.unvisited
        THEN RelaxNeighbors(g, weightFn, current, Tail(conns), st)
        ELSE IF ~MapHas(g.edges, key)
        THEN [st EXCEPT !.threw = "TypeError"]
        ELSE
          LET newDistance ==
                st.dist[current] + GetWeight(weightFn, MapGet(g.edges, key))
          IN  IF Less(newDistance, st.dist[neighborId])
              THEN RelaxNeighbors(g, weightFn, current, Tail(conns),
                     [st EXCEPT !.dist[neighborId] = newDistance,
                                !.prev[neighborId] = current])
              ELSE RelaxNeighbors(g, weightFn, current, Tail(conns), st)

\* one round of the main loop, `current` being the node the scan chose:
\* stop on null or on the end node, else visit it
RECURSIVE Dijkstra(_, _, _, _)
Visit(g, weightFn, endId, st, current) ==
  IF current = NoNode \/ current = endId THEN st
  ELSE Dijkstra(g, weightFn, endId,
         RelaxNeighbors(g, weightFn, current, g.connections[current],
           [st EXCEPT !.unvisited = @ \ {current}]))

\* the main loop `while (unvisited.size > 0)`
Dijkstra(g, weightFn, endId, st) ==
  IF st.unvisited = {} \/ st.threw # "none" THEN st
  ELSE Visit(g, weightFn, endId, st,
         ScanMin(g.nodes, st.unvisited, st.dist, NoNode, Infinity))

\* `while (current !== startId) { path.unshift(current); ... }`
RECURSIVE BuildPath(_, _, _, _)
BuildPath(prev, startId, current, acc) ==
  IF current = startId THEN <<startId>> \o acc
  ELSE BuildPath(prev, startId, prev[current], <<current>> \o acc)

\* the edge records along the path, looked up in this.edges
PathEdges(g, path) ==
  [i \in 1..(Len(path) - 1) |-> MapGet(g.edges, <<path[i], path[i + 1]>>)]

\* totalDistance += edge.distance
TotalDistance(pathEdges) ==
  SumSeq([i \in DOMAIN pathEdges |-> pathEdges[i].distance])

\* the total taken from the base travel times, the load left out
TotalTravelTimeBase(pathEdges) ==
  SumSeq([i \in DOMAIN pathEdges |-> pathEdges[i].travelTime])

\* totalTravelTime += edge.currentTravelTime || edge.travelTime
TotalTravelTime(pathEdges) ==
  SumSeq([i \in DOMAIN pathEdges |->
            IF pathEdges[i].currentTravelTime # Undefined
               /\ pathEdges[i].currentTravelTime # 0
            THEN pathEdges[i].currentTravelTime
            ELSE pathEdges[i].travelTime])

\* what a call that raised leaves to its caller
Thrown(kind) ==
  [threw |-> kind, found |-> FALSE, distance |-> Infinity, path |-> <<>>,
   edges |-> <<>>, travelTime |-> Undefined]

\* `return { found: false, distance: Infinity, path: [] }`
NotFound ==
  [threw |-> "none", found |-> FALSE, distance |-> Infinity, path |-> <<>>,
   edges |-> <<>>, travelTime |-> Undefined]

\* `return { found: true, path, edges, distance, travelTime }`
Found(path, pathEdges) ==
  [threw |-> "none", found |-> TRUE,
   distance |-> TotalDistance(pathEdges),
   path |-> path,
   edges |-> pathEdges,
   travelTime |-> TotalTravelTime(pathEdges)]

\* the totals loop over the rebuilt path; edge.distance on an edge that is
\* not in this.edges raises a TypeError
Totals(g, path) ==
  IF \E i \in 1..(Len(path) - 1) : ~MapHas(g.edges, <<path[i], path[i + 1]>>)
  THEN Thrown("TypeError")
  ELSE Found(path, PathEdges(g, path))

\* what follows the main loop, st being the state it ended in
Reconstruct(g, startId, endId, st) ==
  IF st.threw # "none" THEN Thrown(st.threw)
  ELSE IF st.prev[endId] = NoNode THEN NotFound
  ELSE Totals(g, BuildPath(st.prev, startId, endId, <<>>))

\* distances, previous and unvisited before the main loop
InitialSearch(g, startId) ==
  [dist |-> [n \in Range(g.nodes) |-> IF n = startId THEN 0 ELSE Infinity],
   prev |-> [n \in Range(g.nodes) |-> NoNode],
   unvisited |-> Range(g.nodes),
   threw |-> "none"]

FindShortestPath(g, startId, endId, weightFn) ==
  IF startId \notin Range(g.nodes) \/ endId \notin Range(g.nodes)
  THEN Thrown("Error")
  ELSE Reconstruct(g, startId, endId,
         Dijkstra(g, weightFn, endId, InitialSearch(g, startId)))

\* ------------------------------------------------------------ pathExists
\* Array.join('-')
RECURSIVE Join(_)
Join(path) ==
  IF path = <<>> THEN ""
  ELSE IF Len(path) = 1 THEN Head(path)
  ELSE Head(path) \o "-" \o Join(Tail(path))

PathExists(existingPaths, newPath) ==
  \E i \in DOMAIN existingPaths : Join(existingPaths[i].path) = Join(newPath)

\* -------------------------------------------------- findAlternativePaths
\* an edge record spread into a data object
EdgeAsData(e, bidirectional) ==
  [id |-> e.id, from |-> e.from, to |-> e.to, distance |-> e.distance,
   travelTime |-> e.travelTime, capacity |-> e.capacity,
   currentLoad |-> e.currentLoad,
   currentTravelTime |-> e.currentTravelTime,
   bidirectional |-> bidirectional]

\* `tempGraph.addNode(nodeId, { ...node })` for every node: the spread
\* carries node.connections, which addNode's own `...data` then puts in
\* place of the fresh Set, so the copy holds the live graph's Set objects
RECURSIVE CopyNodes(_, _, _)
CopyNodes(g, order, temp) ==
  IF order = <<>> THEN temp
  ELSE CopyNodes(g, Tail(order),
         AddNodeOp(temp, Head(order), NodeAsData(g.connections[Head(order)])))

\* `tempGraph.addEdge(edge.from, edge.to, {...edge, bidirectional: false})`
\* for every edge whose key the copy does not hold yet
RECURSIVE CopyEdges(_, _)
CopyEdges(es, temp) ==
  IF es = <<>> THEN temp
  ELSE
    LET edge == Head(es)
    IN  IF MapHas(temp.edges, edge.key)
        THEN CopyEdges(Tail(es), temp)
        ELSE CopyEdges(Tail(es),
               AddEdgeOp(temp, edge.from, edge.to, EdgeAsData(edge, FALSE)))

TempGraph(g) == CopyEdges(g.edges, CopyNodes(g, g.nodes, Graph(<<>>, <<>>, <<>>)))

\* `tempGraph.edges.delete(edgeId)`: the edge record goes, the neighbor
\* stays in the node's connections
Suppressed(temp, key) == [temp EXCEPT !.edges = MapDelete(@, key)]

\* the third argument of the restoring addEdge: the record the Map held, or
\* undefined (and then addEdge's default `data = {}`)
RestoreData(temp, key) ==
  IF MapHas(temp.edges, key)
  THEN EdgeAsData(MapGet(temp.edges, key), FALSE)
  ELSE EmptyData

\* the inner loop over the edges of prevPath, from index j on;
\* acc = [threw, temp, paths]
RECURSIVE SuppressEdges(_, _, _, _, _)

\* the rest of one round of the inner loop: newPath is what the search on
\* the reduced copy gave, restored the copy with the edge put back
AfterSearch(startId, endId, prevPath, j, acc, newPath, restored) ==
  IF newPath.threw # "none" THEN [acc EXCEPT !.threw = newPath.threw]
  ELSE IF newPath.found /\ ~PathExists(acc.paths, newPath.path)
  THEN [acc EXCEPT !.temp = restored, !.paths = Append(acc.paths, newPath)]
  ELSE SuppressEdges(startId, endId, prevPath, j + 1,
         [acc EXCEPT !.temp = restored])

SuppressEdges(startId, endId, prevPath, j, acc) ==
  IF j > Len(prevPath) - 1 THEN acc
  ELSE AfterSearch(startId, endId, prevPath, j, acc,
         FindShortestPath(
           Suppressed(acc.temp, <<prevPath[j], prevPath[j + 1]>>),
           startId, endId, "default"),
         AddEdgeOp(
           Suppressed(acc.temp, <<prevPath[j], prevPath[j + 1]>>),
           prevPath[j], prevPath[j + 1],
           RestoreData(acc.temp, <<prevPath[j], prevPath[j + 1]>>)))

\* the outer loop `for (let i = 1; i < k; i++)`
RECURSIVE MorePaths(_, _, _, _, _)

\* `if (paths.length <= i) break;`, next being the outcome of the inner loop
NextRound(startId, endId, k, i, next) ==
  IF next.threw # "none" \/ Len(next.paths) <= i THEN next
  ELSE MorePaths(startId, endId, k, i + 1, next)

MorePaths(startId, endId, k, i, acc) ==
  IF ~(i < k) \/ acc.threw # "none" THEN acc
  ELSE NextRound(startId, endId, k, i,
         SuppressEdges(startId, endId, acc.paths[i].path, 1, acc))

\* what the call leaves: the paths it returns or the error it raises, and
\* the connections of the live graph (the Sets it shares with its copy)
Returned(acc) ==
  [threw |-> acc.threw,
   paths |-> IF acc.threw = "none" THEN acc.paths ELSE <<>>,
   connections |-> acc.temp.connections]

\* the call after its initial search
Alternatives(g, startId, endId, k, initialPath) ==
  IF initialPath.threw # "none" \/ ~initialPath.found
  THEN [threw |-> initialPath.threw, paths |-> <<>>,
        connections |-> g.connections]
  ELSE Returned(MorePaths(startId, endId, k, 1,
         [threw |-> "none", temp |-> TempGraph(g),
          paths |-> <<initialPath>>]))

FindAlternativePaths(g, startId, endId, k) ==
  Alternatives(g, startId, endId, k,
    FindShortestPath(g, startId, endId, "default"))

\* ------------------------------------------------------ distributeTraffic
RECURSIVE Product(_)
Product(s) == IF s = <<>> THEN 1 ELSE Head(s) * Product(Tail(s))

\* Math.floor(totalVehicles * (route.weight / totalWeight)) with
\* weight = 1 / travelTime, as exact arithmetic: both weights are scaled by
\* the product of all the travel times
FlooredShare(totalVehicles, travelTimes, i) ==
  LET p == Product(travelTimes)
      scaled == [j \in DOMAIN travelTimes |-> p \div travelTimes[j]]
  IN  (totalVehicles * scaled[i]) \div SumSeq(scaled)

\* the remainder taken before the floored shares are in the entries (every
\* vehicleCount still 0)
RemainingVehiclesStale(totalVehicles, counts) == totalVehicles

\* totalVehicles - distribution.reduce((sum, r) => sum + r.vehicleCount, 0)
RemainingVehicles(totalVehicles, counts) == totalVehicles - SumSeq(counts)

Distribution(paths, totalVehicles) ==
  LET travelTimes == [i \in DOMAIN paths |-> paths[i].travelTime]
      floored == [i \in DOMAIN paths |->
                    FlooredShare(totalVehicles, travelTimes, i)]
      remainingVehicles == RemainingVehicles(totalVehicles, floored)
  IN  [i \in DOMAIN paths |->
         [path |-> paths[i].path,
          edges |-> paths[i].edges,
          travelTime |-> paths[i].travelTime,
          distance |-> paths[i].distance,
          weight |-> <<1, paths[i].travelTime>>,
          vehicleCount |->
            IF i = 1 /\ remainingVehicles > 0
            THEN floored[i] + remainingVehicles
            ELSE floored[i]]]

\* the call after findAlternativePaths, alt being its outcome
Plan(totalVehicles, alt) ==
  [threw |-> alt.threw,
   success |-> alt.threw = "none" /\ Len(alt.paths) # 0,
   distribution |-> IF alt.threw = "none" /\ Len(alt.paths) # 0
                    THEN Distribution(alt.paths, totalVehicles)
                    ELSE <<>>,
   connections |-> alt.connections]

DistributeTraffic(g, startId, endId, totalVehicles, numPaths) ==
  Plan(totalVehicles, FindAlternativePaths(g, startId, endId, numPaths))

\* ================================================================ system
live == Graph(nodes, connections, edges)

\* no call in progress
Idle == [op |-> "idle"]

Init ==
  /\ nodes = <<>>
  /\ connections = <<>>
  /\ edges = <<>>
  /\ result = Idle

\* the graph a mutating call leaves
Store(g) ==
  /\ nodes' = g.nodes
  /\ connections' = g.connections
  /\ edges' = g.edges

AddNode(id) ==
  /\ result = Idle
  /\ \/ id \in Range(nodes)
     \/ Len(nodes) < Len(NodeOrder) /\ id = NodeOrder[Len(nodes) + 1]
  /\ Store(AddNodeOp(live, id, NodeData))
  /\ result' = [op |-> "addNode", threw |-> "none"]

AddEdge(fromId, toId, d) ==
  /\ result = Idle
  /\ Store(AddEdgeOp(live, fromId, toId, FullData(d)))
  /\ result' = [op |-> "addEdge", fromId |-> fromId, toId |-> toId,
                bidirectional |-> d.bidirectional,
                threw |-> IF AddEdgeThrows(live, fromId, toId)
                          THEN "Error" ELSE "none"]

UpdateEdgeLoad(fromId, toId, load) ==
  /\ result = Idle
  /\ Store(UpdateEdgeLoadOp(live, fromId, toId, load))
  /\ result' = [op |-> "updateEdgeLoad",
                threw |-> IF UpdateEdgeLoadThrows(live, fromId, toId)
                          THEN "Error" ELSE "none"]

ShortestPathQuery(startId, endId, weightFn) ==
  /\ result = Idle
  /\ result' = [op |-> "findShortestPath", startId |-> startId,
                endId |-> endId, weightFn |-> weightFn,
                ret |-> FindShortestPath(live, startId, endId, weightFn)]
  /\ UNCHANGED <<nodes, connections, edges>>

\* the outcome r of findAlternativePaths reaches the caller
AlternativesDone(startId, endId, k, r) ==
  /\ result' = [op |-> "findAlternativePaths", startId |-> startId,
                endId |-> endId, k |-> k, threw |-> r.threw,
                paths |-> r.paths]
  /\ connections' = r.connections

AlternativePathsQuery(startId, endId, k) ==
  /\ result = Idle
  /\ AlternativesDone(startId, endId, k,
       FindAlternativePaths(live, startId, endId, k))
  /\ UNCHANGED <<nodes, edges>>

\* the outcome r of distributeTraffic reaches the caller
DistributionDone(startId, endId, totalVehicles, numPaths, r) ==
  /\ result' = [op |-> "distributeTraffic", startId |-> startId,
                endId |-> endId, totalVehicles |-> totalVehicles,
                numPaths |-> numPaths, threw |-> r.threw,
                success |-> r.success, distribution |-> r.distribution]
  /\ connections' = r.connections

DistributeTrafficQuery(startId, endId, totalVehicles, numPaths) ==
  /\ result = Idle
  /\ DistributionDone(startId, endId, totalVehicles, numPaths,
       DistributeTraffic(live, startId, endId, totalVehicles, numPaths))
  /\ UNCHANGED <<nodes, edges>>

\* the caller takes the outcome of its call (the controller's res.json or
\* catch block); the next call starts after that
Reply ==
  /\ result # Idle
  /\ result' = Idle
  /\ UNCHANGED <<nodes, connections, edges>>

Next ==
  \/ \E id \in NodeIds : AddNode(id)
  \/ \E c \in EdgeCalls : AddEdge(c.from, c.to, c)
  \/ \E c \in LoadCalls : UpdateEdgeLoad(c.from, c.to, c.load)
  \/ \E s \in NodeIds, e \in NodeIds, w \in WeightFns :
       ShortestPathQuery(s, e, w)
  \/ \E s \in NodeIds, e \in NodeIds, k \in 0..MaxK :
       AlternativePathsQuery(s, e, k)
  \/ \E s \in NodeIds, e \in NodeIds, v \in Vehicles, k \in 1..MaxK :
       DistributeTrafficQuery(s, e, v, k)
  \/ Reply

Spec == Init /\ [][Next]_vars

\* ================================================================ claims
Exists(id) == id \in Range(nodes)

EdgeKeys == {edges[i].key : i \in DOMAIN edges}

\* C1: a success result of distributeTraffic hands out exactly
\* totalVehicles vehicles, each entry a non-negative integer
C1_DistributionSumsToTotal ==
  (result.op = "distributeTraffic" /\ result.threw = "none"
     /\ result.success /\ result.numPaths >= 1)
  => /\ SumSeq([i \in DOMAIN result.distribution |->
                  result.distribution[i].vehicleCount])
          = result.totalVehicles
     /\ \A i \in DOMAIN result.distribution :
          result.distribution[i].vehicleCount \in Nat

\* a success result over a route of two roads
C1_Witness ==
  /\ result.op = "distributeTraffic"
  /\ result.threw = "none"
  /\ result.success
  /\ Len(result.distribution[1].path) = 3

\* C2: findAlternativePaths(start, end, k) on existing nodes returns no
\* node sequence twice and at most k paths, for every k >= 0
C2_DistinctAndAtMostK ==
  (result.op = "findAlternativePaths" /\ result.threw = "none"
     /\ Exists(result.startId) /\ Exists(result.endId))
  => /\ Len(result.paths) <= result.k
     /\ \A i, j \in DOMAIN result.paths :
          result.paths[i].path = result.paths[j].path => i = j

\* C3: findShortestPath(a, a) on an existing node a is found, with path
\* [a], distance 0 and travel time 0
C3_TrivialPath ==
  (result.op = "findShortestPath" /\ result.weightFn = "default"
     /\ result.startId = result.endId /\ Exists(result.startId))
  => /\ result.ret.threw = "none"
     /\ result.ret.found
     /\ result.ret.path = <<result.startId>>
     /\ result.ret.distance = 0
     /\ result.ret.travelTime = 0

\* C4 as stated: a found result's travelTime is the sum, over the returned
\* edges, of the cost function the search was given
C4_TravelTimeIsSumOfGivenCost ==
  (result.op = "findShortestPath" /\ result.ret.found)
  => result.ret.travelTime =
       SumSeq([i \in DOMAIN result.ret.edges |->
                 GetWeight(result.weightFn, result.ret.edges[i])])

\* C4 amended: a found result's travelTime is the sum, over the returned
\* edges, of the default congestion-adjusted cost, whichever cost function
\* the search was given
C4_TravelTimeIsSumOfDefaultCost ==
  (result.op = "findShortestPath" /\ result.ret.found)
  => result.ret.travelTime =
       SumSeq([i \in DOMAIN result.ret.edges |->
                 DefaultWeight(result.ret.edges[i])])

\* a search guided by an injected cost function found a route over a
\* loaded road
C4_Witness ==
  /\ result.op = "findShortestPath"
  /\ result.weightFn = "distance"
  /\ result.ret.found
  /\ \E i \in DOMAIN result.ret.edges :
       /\ result.ret.edges[i].currentTravelTime # Undefined
       /\ result.ret.edges[i].currentTravelTime
            # result.ret.edges[i].travelTime

\* the reference: the routes from s to e over the edge collection (node
\* sequences without repetition; costs are positive, so a cheapest route
\* is among them) and the live cost of a route
Routes(s, e) ==
  {p \in UNION {[1..n -> Range(nodes)] : n \in 2..Len(nodes)} :
     /\ p[1] = s
     /\ p[Len(p)] = e
     /\ \A i, j \in DOMAIN p : p[i] = p[j] => i = j
     /\ \A i \in 1..(Len(p) - 1) : <<p[i], p[i + 1]>> \in EdgeKeys}

RouteCost(p) ==
  SumSeq([i \in 1..(Len(p) - 1) |->
            DefaultWeight(MapGet(edges, <<p[i], p[i + 1]>>))])

AgreesWithReference(s, e, ret) ==
  IF Routes(s, e) = {}
  THEN /\ ret.threw = "none"
       /\ ~ret.found
       /\ ret.path = <<>>
       /\ ret.distance = Infinity
  ELSE /\ ret.threw = "none"
       /\ ret.found
       /\ ret.path \in Routes(s, e)
       /\ \A p \in Routes(s, e) : RouteCost(ret.path) <= RouteCost(p)

\* C5: findShortestPath between distinct existing nodes, with the default
\* cost, agrees with the reference over the edge collection
C5_ShortestPathIsReference ==
  (result.op = "findShortestPath" /\ result.weightFn = "default"
     /\ result.startId # result.endId
     /\ Exists(result.startId) /\ Exists(result.endId))
  => AgreesWithReference(result.startId, result.endId, result.ret)

\* C6: findAlternativePaths on existing nodes with k >= 1 raises nothing
C6_AlternativesNeverRaise ==
  (result.op = "findAlternativePaths" /\ result.k >= 1
     /\ Exists(result.startId) /\ Exists(result.endId))
  => result.threw = "none"

\* the graph of the spec's scenario: nodes A, B, C and the roads A->B 5,
\* B->C 5, A->C 20, capacity 100, no load
ScenarioGraph ==
  /\ Range(nodes) = {"A", "B", "C"}
  /\ EdgeKeys = {<<"A", "B">>, <<"B", "C">>, <<"A", "C">>}
  /\ \A i \in DOMAIN edges :
       /\ edges[i].travelTime = (IF edges[i].key = <<"A", "C">> THEN 20 ELSE 5)
       /\ edges[i].capacity = 100
       /\ edges[i].currentLoad = 0
  /\ Range(connections["A"]) = {"B", "C"}
  /\ Range(connections["B"]) = {"C"}
  /\ Range(connections["C"]) = {}

\* C7: in the scenario graph, after updateEdgeLoad(A, C, 0),
\* findAlternativePaths(A, C, 2) returns [A,B,C] with travel time 10 and
\* then [A,C]
C7_ScenarioAlternatives ==
  (/\ ScenarioGraph
   /\ MapGet(edges, <<"A", "C">>).currentTravelTime = 20
   /\ result.op = "findAlternativePaths"
   /\ result.startId = "A" /\ result.endId = "C" /\ result.k = 2)
  => /\ result.threw = "none"
     /\ Len(result.paths) = 2
     /\ result.paths[1].path = <<"A", "B", "C">>
     /\ result.paths[1].travelTime = 10
     /\ result.paths[2].path = <<"A", "C">>

\* C8: in the scenario graph, distributeTraffic(A, C, 100, 2) succeeds
\* with [A,B,C] at weight 1/10 and 67 vehicles and [A,C] at weight 1/20
\* and 33 vehicles
C8_ScenarioDistribution ==
  (/\ ScenarioGraph
   /\ result.op = "distributeTraffic"
   /\ result.startId = "A" /\ result.endId = "C"
   /\ result.totalVehicles = 100 /\ result.numPaths = 2)
  => /\ result.threw = "none"
     /\ result.success
     /\ Len(result.distribution) = 2
     /\ result.distribution[1].path = <<"A", "B", "C">>
     /\ result.distribution[1].weight = <<1, 10>>
     /\ result.distribution[1].vehicleCount = 67
     /\ result.distribution[2].path = <<"A", "C">>
     /\ result.distribution[2].weight = <<1, 20>>
     /\ result.distribution[2].vehicleCount = 33

\* C9: every edge's live routing cost is travelTime * (1 + currentLoad /
\* capacity)
C9_LiveCostFollowsLoad ==
  \A i \in DOMAIN edges :
    DefaultWeight(edges[i]) * edges[i].capacity
      = edges[i].travelTime * (edges[i].capacity + edges[i].currentLoad)

\* C10: m is in the neighbor set of n exactly when the edge "n-m" is in
\* the edge collection
C10_ConnectionsMatchEdges ==
  \A n \in Range(nodes) : \A m \in NodeIds :
    m \in Range(connections[n]) <=> <<n, m>> \in EdgeKeys

\* C11: only updateEdgeLoad changes the currentLoad of an edge that is
\* already there, and updateEdgeLoad(from, to, L) only that of "from-to"
C11_OnlyUpdateChangesLoad ==
  [][\A i \in DOMAIN edges :
       (/\ MapHas(edges', edges[i].key)
        /\ MapGet(edges', edges[i].key).currentLoad # edges[i].currentLoad)
       => \E c \in LoadCalls :
            /\ <<c.from, c.to>> = edges[i].key
            /\ UpdateEdgeLoad(c.from, c.to, c.load)]_vars

\* C12: addEdge with an absent endpoint raises the construction error and
\* leaves the node collection, every neighbor set and every edge record as
\* they were, also for a bidirectional request
C12_FailedAddEdgeChangesNothing ==
  [][\A c \in EdgeCalls :
       (AddEdge(c.from, c.to, c) /\ AddEdgeThrows(live, c.from, c.to))
       => /\ result'.threw = "Error"
          /\ UNCHANGED <<nodes, connections, edges>>]_vars

\* a bidirectional request was refused on a graph that holds edges
C12_Witness ==
  /\ result.op = "addEdge"
  /\ result.threw = "Error"
  /\ result.bidirectional
  /\ result.fromId \in Range(nodes)
  /\ result.toId \notin Range(nodes)
  /\ edges # <<>>

\* C13: a findAlternativePaths call, returning or failing, leaves the live
\* graph's nodes, neighbor sets and edge records as they were, and every
\* findShortestPath on the live graph answers after it as before it
C13_AlternativesLeaveLiveGraph ==
  [][(\E s \in NodeIds, e \in NodeIds, k \in 0..MaxK :
        AlternativePathsQuery(s, e, k))
     => /\ UNCHANGED <<nodes, connections, edges>>
        /\ \A a \in Range(nodes), b \in Range(nodes), w \in WeightFns :
             FindShortestPath(live', a, b, w)
               = FindShortestPath(live, a, b, w)]_vars

\* ================================================== the serving controller
\* graphRoutingController.js: one road network, built once from a dataset
\* and then read and updated by the request handlers.

\* an edge record of a dataset; bidirectional is "absent", "true" or "false"
Road(from, to, distance, travelTime, capacity) ==
  [from |-> from, to |-> to, distance |-> distance,
   travelTime |-> travelTime, capacity |-> capacity,
   bidirectional |-> "absent"]

OneWay(road) == [road EXCEPT !.bidirectional = "false"]

\* data/kachiDhamNetwork.js, node ids in array order
KachiNodes ==
  << "city_center", "north_gate", "south_colony", "east_entrance",
     "west_junction", "market_square", "river_crossing", "hill_view",
     "forest_path", "lake_view", "old_bridge", "temple_main",
     "temple_east", "temple_west", "industrial_area", "bus_terminal" >>

\* data/kachiDhamNetwork.js, edges in array order; distance in units of
\* 0.1 km (1.2 is 12)
KachiEdges ==
  << Road("city_center", "market_square", 12, 10, 500),
     Road("city_center", "west_junction", 8, 7, 600),
     Road("north_gate", "hill_view", 15, 12, 400),
     Road("hill_view", "forest_path", 10, 8, 350),
     Road("south_colony", "lake_view", 9, 7, 450),
     Road("lake_view", "old_bridge", 11, 9, 400),
     Road("east_entrance", "forest_path", 13, 11, 350),
     Road("west_junction", "industrial_area", 14, 12, 600),
     Road("market_square", "river_crossing", 6, 5, 450),
     Road("river_crossing", "temple_west", 5, 6, 300),
     Road("hill_view", "temple_north", 7, 7, 250),
     Road("forest_path", "temple_east", 4, 5, 250),
     Road("old_bridge", "market_square", 10, 9, 400),
     Road("temple_main", "temple_east", 3, 4, 200),
     Road("temple_main", "temple_west", 3, 4, 200),
     Road("market_square", "bus_terminal", 5, 5, 500),
     Road("west_junction", "market_square", 9, 8, 450),
     Road("river_crossing", "hill_view", 8, 7, 350),
     Road("forest_path", "river_crossing", 7, 6, 300) >>

\* the three roads of the scenario as a dataset (travelTime only)
ScenarioRoads ==
  << Road("A", "B", Undefined, 5, Undefined),
     Road("B", "C", Undefined, 5, Undefined),
     Road("A", "C", Undefined, 20, Undefined) >>

\* the (nodes, edges) pairs createKachiDhamNetwork is called with: the
\* shipped data, and the scenario with its roads left bidirectional by
\* default or marked one-way
Datasets ==
  { [name |-> "kachi", nodes |-> KachiNodes, edges |-> KachiEdges],
    [name |-> "scenario", nodes |-> NodeOrder, edges |-> ScenarioRoads],
    [name |-> "scenarioOneWay", nodes |-> NodeOrder,
     edges |-> [i \in DOMAIN ScenarioRoads |-> OneWay(ScenarioRoads[i])]] }

\* the load reports the update handler receives
TrafficReports == LoadCalls \cup {[from |-> "A", to |-> "B", load |-> 0]}

\* `{ ...edge, bidirectional: edge.bidirectional !== false }`: the edge's
\* own from and to travel in the data object
KachiData(edge) ==
  [id |-> NoId, from |-> edge.from, to |-> edge.to,
   distance |-> edge.distance, travelTime |-> edge.travelTime,
   capacity |-> edge.capacity, currentLoad |-> Undefined,
   currentTravelTime |-> Undefined,
   bidirectional |-> (edge.bidirectional # "false")]

\* `for (const node of nodes) graph.addNode(node.id, node)`
RECURSIVE AddAllNodes(_, _)
AddAllNodes(g, ns) ==
  IF ns = <<>> THEN g
  ELSE AddAllNodes(AddNodeOp(g, Head(ns), NodeData), Tail(ns))

\* one graph.addEdge of the loop; acc = [threw, graph]
AddOneEdge(acc, edge) ==
  IF AddEdgeThrows(acc.graph, edge.from, edge.to)
  THEN [acc EXCEPT !.threw = "Error"]
  ELSE [acc EXCEPT
          !.graph = AddEdgeOp(@, edge.from, edge.to, KachiData(edge))]

\* `for (const edge of edges) graph.addEdge(...)`, ended by the first throw
RECURSIVE AddAllEdges(_, _)
AddAllEdges(acc, es) ==
  IF es = <<>> \/ acc.threw # "none" THEN acc
  ELSE AddAllEdges(AddOneEdge(acc, Head(es)), Tail(es))

CreateKachiDhamNetwork(ns, es) ==
  AddAllEdges([threw |-> "none",
               graph |-> AddAllNodes(Graph(<<>>, <<>>, <<>>), ns)], es)

\* `edge.currentLoad = load` (line 91)
WriteLoad(g, fromId, toId, load) ==
  [g EXCEPT !.edges[EdgeIndex(g.edges, <<fromId, toId>>)].currentLoad = load]

\* `edge.currentTravelTime = edge.travelTime * (1 + load / edge.capacity)`
\* (lines 95-96)
WriteTravelTime(g, fromId, toId, load) ==
  [g EXCEPT !.edges[EdgeIndex(g.edges, <<fromId, toId>>)].currentTravelTime =
     LoadedTravelTime(MapGet(g.edges, <<fromId, toId>>).travelTime, load,
                      MapGet(g.edges, <<fromId, toId>>).capacity)]

\* an updateEdgeLoad call is between its two writes
BetweenWrites == result.op = "updateEdgeLoad" /\ result.pc = "loadWritten"

\* a handler entered at any point of another one
HandlerMayStartAnywhere == TRUE

\* a request handler is entered when no other one is running: the handlers
\* and the graph methods they call hold no await, so each runs to its
\* response before the next request's handler is called
HandlerMayStart == result = Idle

\* roadNetwork is null until a build succeeds
NetworkReady == nodes # <<>>

\* r is what createKachiDhamNetwork gave: the graph is assigned to
\* roadNetwork when it returns, nothing is assigned when it throws
Published(name, r) ==
  /\ IF r.threw = "none" THEN Store(r.graph)
     ELSE UNCHANGED <<nodes, connections, edges>>
  /\ result' = [op |-> "initializeRoadNetwork", dataset |-> name,
                threw |-> r.threw]

InitializeRoadNetwork(ds) ==
  /\ HandlerMayStart
  /\ ~NetworkReady
  /\ Published(ds.name, CreateKachiDhamNetwork(ds.nodes, ds.edges))

FindOptimalPath(startId, endId) ==
  /\ HandlerMayStart
  /\ NetworkReady
  /\ result' = [op |-> "findShortestPath", startId |-> startId,
                endId |-> endId, weightFn |-> "default",
                ret |-> FindShortestPath(live, startId, endId, "default")]
  /\ UNCHANGED <<nodes, connections, edges>>

AlternativePathsHandler(startId, endId, numPaths) ==
  /\ HandlerMayStart
  /\ NetworkReady
  /\ AlternativesDone(startId, endId, numPaths,
       FindAlternativePaths(live, startId, endId, numPaths))
  /\ UNCHANGED <<nodes, edges>>

DistributeTrafficHandler(startId, endId, totalVehicles, numPaths) ==
  /\ HandlerMayStart
  /\ NetworkReady
  /\ DistributionDone(startId, endId, totalVehicles, numPaths,
       DistributeTraffic(live, startId, endId, totalVehicles, numPaths))
  /\ UNCHANGED <<nodes, edges>>

\* updateEdgeTraffic up to the first write of updateEdgeLoad, or to the
\* error of an edge that is not there
UpdateEdgeTrafficWriteLoad(fromId, toId, load) ==
  /\ HandlerMayStart
  /\ NetworkReady
  /\ IF UpdateEdgeLoadThrows(live, fromId, toId)
     THEN /\ result' = [op |-> "updateEdgeLoad", pc |-> "done",
                        fromId |-> fromId, toId |-> toId, load |-> load,
                        threw |-> "Error"]
          /\ UNCHANGED <<nodes, connections, edges>>
     ELSE /\ result' = [op |-> "updateEdgeLoad", pc |-> "loadWritten",
                        fromId |-> fromId, toId |-> toId, load |-> load,
                        threw |-> "none"]
          /\ Store(WriteLoad(live, fromId, toId, load))

\* the second write of the same call
UpdateEdgeTrafficWriteTravelTime ==
  /\ BetweenWrites
  /\ Store(WriteTravelTime(live, result.fromId, result.toId, result.load))
  /\ result' = [result EXCEPT !.pc = "done"]

\* res.json or the catch block of a handler that has run to its end
Respond ==
  /\ result # Idle
  /\ ~BetweenWrites
  /\ result' = Idle
  /\ UNCHANGED <<nodes, connections, edges>>

ServingNext ==
  \/ \E ds \in Datasets : InitializeRoadNetwork(ds)
  \/ \E s \in NodeIds, e \in NodeIds : FindOptimalPath(s, e)
  \/ \E s \in NodeIds, e \in NodeIds, k \in 1..MaxK :
       AlternativePathsHandler(s, e, k)
  \/ \E s \in NodeIds, e \in NodeIds, v \in Vehicles, k \in 1..MaxK :
       DistributeTrafficHandler(s, e, v, k)
  \/ \E c \in TrafficReports : UpdateEdgeTrafficWriteLoad(c.from, c.to, c.load)
  \/ UpdateEdgeTrafficWriteTravelTime
  \/ Respond

Serving == Init /\ [][ServingNext]_vars

\* the load and the travel time of an edge belong to one update (or to none)
WholePair(e) ==
  IF e.currentTravelTime = Undefined THEN e.currentLoad = 0
  ELSE e.currentTravelTime
         = LoadedTravelTime(e.travelTime, e.currentLoad, e.capacity)

QueryOps == {"findShortestPath", "findAlternativePaths", "distributeTraffic"}

\* C14: with load updates and path queries of several callers interleaved,
\* no findShortestPath, findAlternativePaths or distributeTraffic reads an
\* edge whose currentLoad is replaced and whose currentTravelTime is not yet
\* recomputed
C14_NoTornRead ==
  result.op \in QueryOps => \A i \in DOMAIN edges : WholePair(edges[i])

\* a path query answered over an edge that two updates have written
C14_Witness ==
  /\ result.op = "findShortestPath"
  /\ result.ret.threw = "none"
  /\ result.ret.found
  /\ \E j \in DOMAIN result.ret.edges :
       /\ result.ret.edges[j].currentLoad = 0
       /\ result.ret.edges[j].currentTravelTime # Undefined
  /\ \E i \in DOMAIN edges : edges[i].currentLoad = 100

\* C15: every edge record stored under "a-b" has id "a-b", from a and to b,
\* the reverse edge of a bidirectional insertion included
C15_EdgeRecordMatchesKey ==
  \A i \in DOMAIN edges :
    /\ edges[i].id = edges[i].key
    /\ edges[i].from = edges[i].key[1]
    /\ edges[i].to = edges[i].key[2]

\* C16: the shipped data names only its own nodes, and building the network
\* from it raises no error and publishes all 16 nodes and both directions of
\* every listed edge
C16_KachiNetworkIsBuilt ==
  (result.op = "initializeRoadNetwork" /\ result.dataset = "kachi")
  => /\ \A i \in DOMAIN KachiEdges :
          /\ KachiEdges[i].from \in Range(KachiNodes)
          /\ KachiEdges[i].to \in Range(KachiNodes)
     /\ result.threw = "none"
     /\ Len(nodes) = 16
     /\ Range(nodes) = Range(KachiNodes)
     /\ \A i \in DOMAIN KachiEdges :
          /\ MapHas(edges, <<KachiEdges[i].from, KachiEdges[i].to>>)
          /\ MapHas(edges, <<KachiEdges[i].to, KachiEdges[i].from>>)

====
